---- MODULE Spec2Model ----
(***************************************************************************)
(* Model of cll251draft.py, the Streamlit "Sunburn Risk & Ozone Depletion  *)
(* Simulator".  One evaluation of the script runs top to bottom: sidebar   *)
(* (widgets and the live ozone lookup), simulation, display (summary and   *)
(* alert, graph, CSV export).  Streamlit re-runs the whole script on every *)
(* widget interaction and on the Rerun command of its menu, also while an  *)
(* evaluation is under way.                                                *)
(*                                                                         *)
(* Numbers are Python floats: IEEE 754 binary64 values, every operation    *)
(* rounded to the nearest float, ties to even.  A Python int that takes    *)
(* part in float arithmetic is converted first, as Python does.            *)
(***************************************************************************)
EXTENDS Integers, Sequences, FiniteSets, TLC

VARIABLES
    \* widget values (the input snapshot of an evaluation): what each widget
    \* returns, or last returned when the evaluation has not created it
    use_live_ozone, lat, lon, ozone_slider, cloud, altitude, spf, exposure,
    skin_type,
    \* names bound by the script
    ozone_live, ozone, uv_index, base_time, safe_time, risk_level, alert,
    minutes, risk_array, csv,
    \* position of the script, and the exception that ended it
    pc, error,
    \* the widgets the evaluation under way has created, and the widgets on
    \* the page: those, and the ones left by the evaluation before it until
    \* this one ends
    created, page,
    \* an earlier evaluation that has ended, kept for comparison: the widget
    \* values it was started on, what its lookup gave and what it showed
    \* (NoRun when none is kept)
    prev

inputs == <<use_live_ozone, lat, lon, ozone_slider, cloud, altitude, spf,
            exposure, skin_type>>
locals == <<ozone_live, ozone, uv_index, base_time, safe_time, risk_level,
            alert, minutes, risk_array, csv>>
vars == <<inputs, locals, pc, error, created, page, prev>>

----------------------------------------------------------------------------
(* Natural numbers of any size: little-endian sequences of limbs in base    *)
(* 2^15, no leading zero limb; <<>> is 0.                                   *)

LIMB == 32768

Abs(x) == IF x < 0 THEN -x ELSE x
Sign(x) == IF x > 0 THEN 1 ELSE IF x < 0 THEN -1 ELSE 0
Max(x, y) == IF x > y THEN x ELSE y
Min(x, y) == IF x < y THEN x ELSE y

RECURSIVE BTrim(_)
BTrim(a) ==
    IF a # <<>> /\ a[Len(a)] = 0 THEN BTrim(SubSeq(a, 1, Len(a) - 1)) ELSE a

RECURSIVE BFromNat(_)
BFromNat(k) == IF k = 0 THEN <<>> ELSE <<k % LIMB>> \o BFromNat(k \div LIMB)

BLimb(a, i) == IF i >= 1 /\ i <= Len(a) THEN a[i] ELSE 0

RECURSIVE BCmpFrom(_, _, _)
BCmpFrom(a, b, i) ==
    IF i = 0 THEN 0
    ELSE IF a[i] < b[i] THEN -1
    ELSE IF a[i] > b[i] THEN 1
    ELSE BCmpFrom(a, b, i - 1)

\* -1, 0 or 1 as a < b, a = b or a > b
BCmp(a, b) ==
    IF Len(a) < Len(b) THEN -1
    ELSE IF Len(a) > Len(b) THEN 1
    ELSE BCmpFrom(a, b, Len(a))

RECURSIVE BAddFrom(_, _, _, _)
BAddFrom(a, b, i, carry) ==
    IF i > Len(a) /\ i > Len(b)
    THEN IF carry = 0 THEN <<>> ELSE <<carry>>
    ELSE LET t == BLimb(a, i) + BLimb(b, i) + carry
         IN  <<t % LIMB>> \o BAddFrom(a, b, i + 1, t \div LIMB)

BAdd(a, b) == BAddFrom(a, b, 1, 0)

RECURSIVE BSubFrom(_, _, _, _)
BSubFrom(a, b, i, borrow) ==
    IF i > Len(a) THEN <<>>
    ELSE LET t == a[i] - BLimb(b, i) - borrow
         IN  IF t < 0 THEN <<t + LIMB>> \o BSubFrom(a, b, i + 1, 1)
             ELSE <<t>> \o BSubFrom(a, b, i + 1, 0)

\* a - b for a >= b
BSub(a, b) == BTrim(BSubFrom(a, b, 1, 0))

RECURSIVE BMulSmallFrom(_, _, _, _)
BMulSmallFrom(a, k, i, carry) ==
    IF i > Len(a) THEN IF carry = 0 THEN <<>> ELSE <<carry>>
    ELSE LET t == a[i] * k + carry
         IN  <<t % LIMB>> \o BMulSmallFrom(a, k, i + 1, t \div LIMB)

\* a * k for 0 <= k < LIMB
BMulSmall(a, k) == IF k = 0 THEN <<>> ELSE BMulSmallFrom(a, k, 1, 0)

\* a * LIMB^n
BShiftLimbs(a, n) == IF a = <<>> THEN <<>> ELSE [i \in 1..n |-> 0] \o a

RECURSIVE BMulFrom(_, _, _)
BMulFrom(a, b, i) ==
    IF i > Len(b) THEN <<>>
    ELSE BAdd(BShiftLimbs(BMulSmall(a, b[i]), i - 1), BMulFrom(a, b, i + 1))

BMul(a, b) == BMulFrom(a, b, 1)

\* a * 2^bits
BShl(a, bits) ==
    BShiftLimbs(BMulSmall(a, 2 ^ (bits % 15)), bits \div 15)

RECURSIVE BDivSmallFrom(_, _, _, _)
BDivSmallFrom(a, k, i, rem) ==
    IF i = 0 THEN <<>>
    ELSE LET t == rem * LIMB + a[i]
         IN  BDivSmallFrom(a, k, i - 1, t % k) \o <<t \div k>>

\* a \div k for 0 < k < LIMB
BDivSmall(a, k) == BTrim(BDivSmallFrom(a, k, Len(a), 0))

\* a \div 2^bits
BShr(a, bits) ==
    IF bits \div 15 >= Len(a) THEN <<>>
    ELSE BDivSmall(SubSeq(a, bits \div 15 + 1, Len(a)), 2 ^ (bits % 15))

RECURSIVE BitLenNat(_)
BitLenNat(k) == IF k = 0 THEN 0 ELSE 1 + BitLenNat(k \div 2)

\* number of bits of a; 0 for 0
BBitLen(a) ==
    IF a = <<>> THEN 0 ELSE 15 * (Len(a) - 1) + BitLenNat(a[Len(a)])

BIsOdd(a) == a # <<>> /\ a[1] % 2 = 1

RECURSIVE TrailingZerosNat(_)
TrailingZerosNat(k) == IF k % 2 = 1 THEN 0 ELSE 1 + TrailingZerosNat(k \div 2)

RECURSIVE BTrailingZeros(_)
\* number of trailing zero bits of a > 0
BTrailingZeros(a) ==
    IF a[1] = 0 THEN 15 + BTrailingZeros(Tail(a))
    ELSE TrailingZerosNat(a[1])

RECURSIVE BDivModFrom(_, _, _, _, _)
\* long division, limb i of a next; b has its top bit set, rem < b
BDivModFrom(a, b, i, rem, quo) ==
    IF i = 0 THEN [q |-> BTrim(quo), r |-> rem]
    ELSE LET cur == BTrim(<<a[i]>> \o rem)
             n == Len(b)
             guess ==
                 Min(LIMB - 1,
                     (BLimb(cur, n + 1) * LIMB + BLimb(cur, n)) \div b[n])
             digit ==
                 IF BCmp(BMulSmall(b, guess), cur) <= 0 THEN guess
                 ELSE IF BCmp(BMulSmall(b, guess - 1), cur) <= 0
                 THEN guess - 1
                 ELSE guess - 2
         IN  BDivModFrom(a, b, i - 1, BSub(cur, BMulSmall(b, digit)),
                         <<digit>> \o quo)

\* quotient and remainder of a by b > 0 (the remainder scaled by a power
\* of two)
BDivMod(a, b) ==
    LET s == 15 - BitLenNat(b[Len(b)])
        aa == BShl(a, s)
    IN  BDivModFrom(aa, BShl(b, s), Len(aa), <<>>, <<>>)

----------------------------------------------------------------------------
(* IEEE 754 binary64 values, as Python floats.  A finite value is           *)
(* s * m * 2^e with s the sign, m an odd natural below 2^53 (0 has m = 0,   *)
(* s = 1, e = 0); the other kinds are inf (with its sign) and nan.          *)

Zero == [k |-> "fin", s |-> 1, m |-> <<>>, e |-> 0]
Infinity(s) == [k |-> "inf", s |-> s, m |-> <<>>, e |-> 0]
Inf == Infinity(1)
NaN == [k |-> "nan", s |-> 1, m |-> <<>>, e |-> 0]

\* s * m * 2^e for any natural m, in canonical form; the value must be
\* representable
Fin(s, m, e) ==
    IF m = <<>> THEN Zero
    ELSE LET tz == BTrailingZeros(m)
         IN  [k |-> "fin", s |-> s, m |-> BShr(m, tz), e |-> e + tz]

\* the float nearest to s * (m + f) * 2^e, ties to even, where 0 <= f < 1
\* and f > 0 exactly when sticky; overflow gives inf
RoundFin(s, m, e, sticky) ==
    LET len == BBitLen(m)
        shift == Max(len - 53, (-1074) - e)
    IN  IF shift <= 0
        THEN IF len + e > 1024 THEN Infinity(s) ELSE Fin(s, m, e)
        ELSE LET t == BShr(m, shift - 1)
                 q == BShr(t, 1)
                 low == sticky \/ BShl(t, shift - 1) # m
                 up == BIsOdd(t) /\ (low \/ BIsOdd(q))
                 r == IF up THEN BAdd(q, <<1>>) ELSE q
             IN  IF BBitLen(r) + e + shift > 1024 THEN Infinity(s)
                 ELSE Fin(s, r, e + shift)

IsNaN(a) == a.k = "nan"
IsInf(a) == a.k = "inf"
IsFinite(a) == a.k = "fin"
IsZero(a) == a.k = "fin" /\ a.m = <<>>

\* float(k) for an int k that a float holds exactly
Whole(k) == Fin(Sign(k), BFromNat(Abs(k)), 0)

FNeg(a) == IF IsZero(a) \/ IsNaN(a) THEN a ELSE [a EXCEPT !.s = -a.s]

FMul(a, b) ==
    IF IsNaN(a) \/ IsNaN(b) THEN NaN
    ELSE IF IsInf(a) \/ IsInf(b)
    THEN IF IsZero(a) \/ IsZero(b) THEN NaN ELSE Infinity(a.s * b.s)
    ELSE IF IsZero(a) \/ IsZero(b) THEN Zero
    ELSE RoundFin(a.s * b.s, BMul(a.m, b.m), a.e + b.e, FALSE)

\* a / b for b # 0 (Python raises ZeroDivisionError on a zero divisor)
FDiv(a, b) ==
    IF IsNaN(a) \/ IsNaN(b) THEN NaN
    ELSE IF IsInf(a) THEN IF IsInf(b) THEN NaN ELSE Infinity(a.s * b.s)
    ELSE IF IsInf(b) \/ IsZero(a) THEN Zero
    ELSE LET k == Max(0, 55 + BBitLen(b.m) - BBitLen(a.m))
             qr == BDivMod(BShl(a.m, k), b.m)
         IN  RoundFin(a.s * b.s, qr.q, a.e - b.e - k, qr.r # <<>>)

FAdd(a, b) ==
    IF IsNaN(a) \/ IsNaN(b) THEN NaN
    ELSE IF IsInf(a)
    THEN IF IsInf(b) /\ a.s # b.s THEN NaN ELSE a
    ELSE IF IsInf(b) THEN b
    ELSE IF IsZero(a) THEN b
    ELSE IF IsZero(b) THEN a
    ELSE IF BBitLen(a.m) + a.e - (BBitLen(b.m) + b.e) > 60 THEN a
    ELSE IF BBitLen(b.m) + b.e - (BBitLen(a.m) + a.e) > 60 THEN b
    ELSE LET e == Min(a.e, b.e)
             x == BShl(a.m, a.e - e)
             y == BShl(b.m, b.e - e)
             c == BCmp(x, y)
         IN  IF a.s = b.s THEN RoundFin(a.s, BAdd(x, y), e, FALSE)
             ELSE IF c = 0 THEN Zero
             ELSE IF c > 0 THEN RoundFin(a.s, BSub(x, y), e, FALSE)
             ELSE RoundFin(b.s, BSub(y, x), e, FALSE)

FSub(a, b) == FAdd(a, FNeg(b))

\* -1, 0, 1 as |a| <, =, > |b|, for a and b not nan
CmpMagnitude(a, b) ==
    IF IsInf(a) THEN IF IsInf(b) THEN 0 ELSE 1
    ELSE IF IsInf(b) THEN -1
    ELSE IF IsZero(a) THEN IF IsZero(b) THEN 0 ELSE -1
    ELSE IF IsZero(b) THEN 1
    ELSE LET ta == BBitLen(a.m) + a.e
             tb == BBitLen(b.m) + b.e
             e == Min(a.e, b.e)
         IN  IF ta < tb THEN -1
             ELSE IF ta > tb THEN 1
             ELSE BCmp(BShl(a.m, a.e - e), BShl(b.m, b.e - e))

SignOf(a) == IF IsZero(a) THEN 0 ELSE a.s

\* a < b
Less(a, b) ==
    IF IsNaN(a) \/ IsNaN(b) THEN FALSE
    ELSE IF SignOf(a) # SignOf(b) THEN SignOf(a) < SignOf(b)
    ELSE IF SignOf(a) = 0 THEN FALSE
    ELSE IF SignOf(a) > 0 THEN CmpMagnitude(a, b) < 0
    ELSE CmpMagnitude(a, b) > 0

\* a <= b as Python compares floats: false when either is nan.  The script
\* has no <=; the properties are stated with it.
Leq(a, b) == ~IsNaN(a) /\ ~IsNaN(b) /\ ~Less(b, a)

\* the float a decimal literal n/d denotes (d > 0): the nearest one
Dec(n, d) == FDiv(Whole(n), Whole(d))

\* round(a, 2): the exact value of a rounded to the nearest hundredth (an
\* exact tie to the even one), and the float nearest to that
Round2(a) ==
    IF ~IsFinite(a) \/ a.e >= 0 THEN a
    ELSE LET p == BMulSmall(a.m, 100)
             sh == -a.e
             t == BShr(p, sh - 1)
             q == BShr(t, 1)
             up == BIsOdd(t) /\ (BShl(t, sh - 1) # p \/ BIsOdd(q))
             n == IF up THEN BAdd(q, <<1>>) ELSE q
             k == Max(0, 62 - BBitLen(n))
             qr == BDivMod(BShl(n, k), <<100>>)
         IN  IF n = <<>> THEN Zero
             ELSE RoundFin(a.s, qr.q, -k, qr.r # <<>>)

----------------------------------------------------------------------------
(* Constants of the script *)

BASE_UV_INDEX == 8
OZONE_BASE == 300
\* 0.1
ALTITUDE_BOOST == Dec(1, 10)
SkinTypeNames ==
    <<"Type I (Very fair)", "Type II (Fair)", "Type III (Medium)",
      "Type IV (Olive)", "Type V (Brown)", "Type VI (Dark brown)">>
SKIN_TYPES ==
    (SkinTypeNames[1] :> 5) @@ (SkinTypeNames[2] :> 10)
    @@ (SkinTypeNames[3] :> 15) @@ (SkinTypeNames[4] :> 20)
    @@ (SkinTypeNames[5] :> 25) @@ (SkinTypeNames[6] :> 30)
API_KEY == "a7ee76b52d850ee8f45f066d98acf4973a402bfd"

\* ug/m3 per Dobson Unit used by get_ozone_thickness: 2.1415
UGM3_PER_DU == Dec(21415, 10000)

\* fraction of UV blocked by full cloud cover: 0.75
CLOUD_BLOCK == Dec(75, 100)

\* widget ranges and defaults: st.slider(label, min, max, default)
OZONE_MIN == 100
OZONE_MAX == 400
OZONE_DEFAULT == 300
CLOUD_MIN == 0
CLOUD_MAX == 100
CLOUD_DEFAULT == 20
\* altitude in tenths of a kilometre (the slider's step is 0.1)
ALTITUDE_MIN == 0
ALTITUDE_MAX == 50
ALTITUDE_DEFAULT == 0
SPF_DEFAULT == 30
EXPOSURE_DEFAULT == 60
\* latitude and longitude defaults, in 1/10000 degree (format "%.4f")
LAT_DEFAULT == 286139
LON_DEFAULT == 772090

\* np.linspace(0, 180, 500)
GRAPH_START == 0
GRAPH_STOP == 180
GRAPH_NUM == 500
\* width of the logistic transition, minutes
RISK_WIDTH == 10

----------------------------------------------------------------------------
(* Python values that are not floats *)

None == [t |-> "NoneType"]
Unbound == [t |-> "unbound"]
NoError == [t |-> "none"]
NoRun == [t |-> "norun"]

\* parsed JSON: a dict, a list, a str (the sequence of its characters), a
\* bool, an int or a float (None is null).  An int is any size in Python:
\* one too large for a float has fits = FALSE and no value here.
JDict(f) == [t |-> "dict", items |-> f]
JList(q) == [t |-> "list", items |-> q]
JStr(q) == [t |-> "str", chars |-> q]
JBool(b) == [t |-> "bool", v |-> b]
JInt(i) == [t |-> "int", fits |-> TRUE, v |-> i]
JHugeInt == [t |-> "int", fits |-> FALSE]
JFloat(x) == [t |-> "float", v |-> x]

Ok(v) == [ok |-> TRUE, v |-> v]
Raise(exc) == [ok |-> FALSE, exc |-> exc]

\* obj[key] for a string key
GetKey(obj, key) ==
    IF obj.t = "dict"
    THEN IF key \in DOMAIN obj.items THEN Ok(obj.items[key])
         ELSE Raise("KeyError")
    ELSE Raise("TypeError")

\* obj[0]
GetFirst(obj) ==
    IF obj.t = "dict" THEN Raise("KeyError")
    ELSE IF obj.t = "list"
    THEN IF Len(obj.items) > 0 THEN Ok(obj.items[1]) ELSE Raise("IndexError")
    ELSE IF obj.t = "str"
    THEN IF Len(obj.chars) > 0 THEN Ok(JStr(<<obj.chars[1]>>))
         ELSE Raise("IndexError")
    ELSE Raise("TypeError")

\* obj / 2.1415: an int or a bool is converted to a float first, and an int
\* too large for one raises OverflowError
DivideByFactor(obj) ==
    IF obj.t = "float" THEN Ok(FDiv(obj.v, UGM3_PER_DU))
    ELSE IF obj.t = "int"
    THEN IF obj.fits THEN Ok(FDiv(Whole(obj.v), UGM3_PER_DU))
         ELSE Raise("OverflowError")
    ELSE IF obj.t = "bool"
    THEN Ok(FDiv(Whole(IF obj.v THEN 1 ELSE 0), UGM3_PER_DU))
    ELSE Raise("TypeError")

\* bool(x) of None or a float
Truthy(x) == x # None /\ ~IsZero(x)

----------------------------------------------------------------------------
(* The remote air-quality service, as seen by one requests.get *)

Body(o3) ==
    JDict([list |-> JList(<<JDict([components |-> JDict([o3 |-> o3])])>>)])

\* 10^15
Quadrillion == FMul(Whole(1000000), Whole(1000000000))

\* o3 values a body can carry (ug/m3): 0, 0.01, 642.45, -100, 1e999 (which
\* the JSON parser reads as inf), NaN (which it accepts),
\* 2141500000000000.25, an integer of 400 digits, true, null, a string
O3Numbers ==
    {JInt(0), JFloat(Dec(1, 100)), JFloat(Dec(64245, 100)), JInt(-100),
     JFloat(Inf), JFloat(NaN), JBool(TRUE),
     JFloat(FAdd(FMul(Whole(21415), FMul(Whole(100000), Whole(1000000))),
                 Dec(1, 4))),
     JHugeInt}
O3Values == O3Numbers \cup {None, JStr(<<"6", "8", ".", "2">>)}

JsonBodies ==
    {Body(v) : v \in O3Values}
    \cup {JDict([cod |-> JInt(401),
                 message |-> JStr(<<"I", "n", "v", "a", "l", "i", "d">>)]),
          JDict([list |-> JStr(<<"a", "b", "c">>)]),
          JDict([list |-> JStr(<<>>)]),
          JDict([list |-> JList(<<>>)]),
          JDict([list |-> JInt(0)]),
          JDict([list |-> JList(<<JDict([dt |-> JInt(0)])>>)]),
          JDict([list |-> JList(<<JDict([components |-> JDict([co |-> JInt(1)])])>>)]),
          JList(<<>>)}

\* what the service does with one request
RemoteOutcomes ==
    {[kind |-> "network_error"], [kind |-> "no_answer"], [kind |-> "not_json"]}
    \cup {[kind |-> "json", data |-> b] : b \in JsonBodies}

Returned(v) == [status |-> "returned", value |-> v]
Raised(exc) == [status |-> "raised", exc |-> exc]
Blocked == [status |-> "blocked"]

\* the try block of get_ozone_thickness: any exception in it gives None
ExtractOzone(data) ==
    LET l == GetKey(data, "list")
        first == IF l.ok THEN GetFirst(l.v) ELSE l
        comps == IF first.ok THEN GetKey(first.v, "components") ELSE first
        o3 == IF comps.ok THEN GetKey(comps.v, "o3") ELSE comps
        ozone_du == IF o3.ok THEN DivideByFactor(o3.v) ELSE o3
    IN  IF ozone_du.ok THEN Round2(ozone_du.v) ELSE None

\* requests.get and response.json() run before the try block; outcome is
\* what the service does with the request for this latitude, longitude and
\* key
get_ozone_thickness(latitude, longitude, api_key, outcome) ==
    CASE outcome.kind = "network_error" -> Raised("ConnectionError")
      [] outcome.kind = "no_answer" -> Blocked
      [] outcome.kind = "not_json" -> Raised("JSONDecodeError")
      [] outcome.kind = "json" -> Returned(ExtractOzone(outcome.data))

----------------------------------------------------------------------------
(* The pure functions of the script *)

\* get_uv_index with the ozone ratio inverted (ozone_du / OZONE_BASE)
get_uv_index_inverted(ozone_du, cloud_cover, altitude_km) ==
    LET base_uv == FMul(Whole(BASE_UV_INDEX), FDiv(ozone_du, Whole(OZONE_BASE)))
        cloud_factor ==
            FSub(Whole(1), FMul(FDiv(cloud_cover, Whole(100)), CLOUD_BLOCK))
        altitude_factor == FAdd(Whole(1), FMul(ALTITUDE_BOOST, altitude_km))
    IN  FMul(FMul(base_uv, cloud_factor), altitude_factor)

\* ozone_du # 0: the division raises ZeroDivisionError otherwise
get_uv_index(ozone_du, cloud_cover, altitude_km) ==
    LET base_uv == FMul(Whole(BASE_UV_INDEX), FDiv(Whole(OZONE_BASE), ozone_du))
        cloud_factor ==
            FSub(Whole(1), FMul(FDiv(cloud_cover, Whole(100)), CLOUD_BLOCK))
        altitude_factor == FAdd(Whole(1), FMul(ALTITUDE_BOOST, altitude_km))
    IN  FMul(FMul(base_uv, cloud_factor), altitude_factor)

\* get_protection_time with uv_index and skin_minutes swapped
get_protection_time_swapped(s, uv, skin_minutes) ==
    FDiv(FMul(Whole(s), uv), Whole(skin_minutes))

\* uv # 0: the division raises ZeroDivisionError otherwise
get_protection_time(s, uv, skin_minutes) == FDiv(Whole(s * skin_minutes), uv)

\* the ladder with <= in place of <: a threshold falls in the lower band
RiskLevelInclusive(uv) ==
    IF Leq(uv, Whole(3)) THEN "Low"
    ELSE IF Leq(uv, Whole(6)) THEN "Moderate"
    ELSE IF Leq(uv, Whole(8)) THEN "High"
    ELSE IF Leq(uv, Whole(11)) THEN "Very High"
    ELSE "Extreme"

\* the ladder with the High and Very High labels exchanged
RiskLevelSwapped(uv) ==
    IF Less(uv, Whole(3)) THEN "Low"
    ELSE IF Less(uv, Whole(6)) THEN "Moderate"
    ELSE IF Less(uv, Whole(8)) THEN "Very High"
    ELSE IF Less(uv, Whole(11)) THEN "High"
    ELSE "Extreme"

RiskLevel(uv) ==
    IF Less(uv, Whole(3)) THEN "Low"
    ELSE IF Less(uv, Whole(6)) THEN "Moderate"
    ELSE IF Less(uv, Whole(8)) THEN "High"
    ELSE IF Less(uv, Whole(11)) THEN "Very High"
    ELSE "Extreme"

\* linspace with endpoint=False: the step is (stop - start) / num and the
\* last point is not stop
linspace_open(start, stop, num) ==
    LET step == FDiv(Whole(stop - start), Whole(num))
    IN  [i \in 1..num |-> FAdd(FMul(Whole(i - 1), step), Whole(start))]

\* np.linspace(start, stop, num) for num > 1: point i is i * step + start
\* with step = (stop - start) / (num - 1), and the last point is stop
linspace(start, stop, num) ==
    LET step == FDiv(Whole(stop - start), Whole(num - 1))
    IN  [i \in 1..num |->
            IF i = num THEN Whole(stop)
            ELSE FAdd(FMul(Whole(i - 1), step), Whole(start))]

\* line 104: the sample domain of the graph
SampleDomain == linspace(GRAPH_START, GRAPH_STOP, GRAPH_NUM)

\* 1 / (1 + np.exp(-(minute - safe) / width)), kept as the floats it is
\* computed from: np.exp is not evaluated
Logistic(minute, safe, width) ==
    [logistic |-> [minute |-> minute, safe |-> safe, width |-> width]]

BurnRisk(minute, safe) == Logistic(minute, safe, RISK_WIDTH)

CsvHeader == <<"Minute", "Burn Risk (0=Safe, 1=High)">>

\* pd.DataFrame({...}).to_csv(index=False): the header, then one row per
\* index of the two columns
to_csv(col_minute, col_risk) ==
    <<CsvHeader>> \o [i \in 1..Len(col_minute) |-> <<col_minute[i], col_risk[i]>>]

----------------------------------------------------------------------------
(* Widget values the user can set *)

\* bounds of the model: the highest altitude sampled (km) and how many of the
\* six skin types are offered
AltitudeKm == 1
SkinTypesUsed == 2

OzoneSliderValues == {200, 300}
CloudValues == {0, 20}
\* whole kilometres 0 .. AltitudeKm, in tenths
AltitudeValues == {10 * k : k \in 0..AltitudeKm}
SpfValues == {30}
ExposureValues == {60}
SkinTypeValues == {SkinTypeNames[i] : i \in 1..SkinTypesUsed}
LatValues == {LAT_DEFAULT}
LonValues == {LON_DEFAULT}

----------------------------------------------------------------------------
(* One evaluation of the script, a step for each stretch between two calls *)
(* of Streamlit that differ in what they leave on the page or bound        *)

Init ==
    /\ use_live_ozone = TRUE
    /\ lat = LAT_DEFAULT
    /\ lon = LON_DEFAULT
    /\ ozone_slider = OZONE_DEFAULT
    /\ cloud = CLOUD_DEFAULT
    /\ altitude = ALTITUDE_DEFAULT
    /\ spf = SPF_DEFAULT
    /\ exposure = EXPOSURE_DEFAULT
    /\ skin_type = SkinTypeNames[1]
    /\ ozone_live = Unbound
    /\ ozone = Unbound
    /\ uv_index = Unbound
    /\ base_time = Unbound
    /\ safe_time = Unbound
    /\ risk_level = Unbound
    /\ alert = Unbound
    /\ minutes = <<>>
    /\ risk_array = <<>>
    /\ csv = <<>>
    /\ pc = "checkbox"
    /\ error = NoError
    /\ created = {}
    /\ page = {}
    /\ prev = NoRun

\* a widget call: the widget is created, and is on the page
Create(w) ==
    /\ created' = created \cup {w}
    /\ page' = page \cup {w}

\* an uncaught exception ends the evaluation: the page keeps the widgets it
\* had created
Abort(exc, where) ==
    /\ pc' = "aborted"
    /\ error' = [exc |-> exc, in |-> where]
    /\ page' = created
    /\ UNCHANGED created

\* a widget call that binds no name the model follows beyond the widget's
\* value
Widget(at, w, next) ==
    /\ pc = at
    /\ Create(w)
    /\ pc' = next
    /\ UNCHANGED <<inputs, locals, error, prev>>

\* line 54: the toggle; line 56 branches on it
Checkbox ==
    Widget("checkbox", "use_live_ozone", IF use_live_ozone THEN "lat" ELSE "ozone")

\* line 57
Latitude == Widget("lat", "lat", "lon")

\* line 58
Longitude == Widget("lon", "lon", "lookup")

\* line 59: the live lookup, which waits for the remote service
Lookup ==
    /\ pc = "lookup"
    /\ \E outcome \in RemoteOutcomes :
          LET r == get_ozone_thickness(lat, lon, API_KEY, outcome)
          IN  CASE r.status = "raised" ->
                     /\ Abort(r.exc, "get_ozone_thickness")
                     /\ UNCHANGED ozone_live
                [] r.status = "blocked" ->
                     /\ pc' = "blocked"
                     /\ UNCHANGED <<error, created, page, ozone_live>>
                [] r.status = "returned" ->
                     /\ ozone_live' = r.value
                     /\ pc' = "ozone"
                     /\ UNCHANGED <<error, created, page>>
    /\ UNCHANGED <<inputs, ozone, uv_index, base_time, safe_time, risk_level,
                   alert, minutes, risk_array, csv, prev>>

\* SidebarOzone with the slider's value, which the session keeps, winning
\* over the lookup while the slider of an earlier evaluation is on the page
SidebarOzoneStale(live) ==
    IF Truthy(live) /\ "ozone" \notin page THEN live
    ELSE Whole(ozone_slider)

\* lines 61-66: the ozone the sidebar hands on, given what the lookup
\* returned
SidebarOzone(live) == IF Truthy(live) THEN live ELSE Whole(ozone_slider)

\* lines 61-68: the looked-up ozone, or the slider when the lookup gave
\* nothing usable or the toggle is off
OzoneInput ==
    /\ pc = "ozone"
    /\ ozone' = IF use_live_ozone THEN SidebarOzone(ozone_live)
                ELSE Whole(ozone_slider)
    /\ IF use_live_ozone /\ Truthy(ozone_live)
       THEN UNCHANGED <<created, page>>
       ELSE Create("ozone")
    /\ pc' = "cloud"
    /\ UNCHANGED <<inputs, ozone_live, uv_index, base_time, safe_time,
                   risk_level, alert, minutes, risk_array, csv, error, prev>>

\* line 70
Cloud == Widget("cloud", "cloud", "altitude")

\* line 71
Altitude == Widget("altitude", "altitude", "spf")

\* line 72
Spf == Widget("spf", "spf", "exposure")

\* line 73
Exposure == Widget("exposure", "exposure", "skin_type")

\* line 74
SkinType == Widget("skin_type", "skin_type", "simulation")

\* lines 77-86
Simulation ==
    /\ pc = "simulation"
    /\ IF IsZero(ozone)
       THEN /\ Abort("ZeroDivisionError", "get_uv_index")
            /\ UNCHANGED <<uv_index, base_time, safe_time, risk_level>>
       ELSE LET uv == get_uv_index(ozone, Whole(cloud), Dec(altitude, 10))
                skin_minutes == SKIN_TYPES[skin_type]
            IN  /\ uv_index' = uv
                /\ base_time' = skin_minutes
                /\ IF IsZero(uv)
                   THEN /\ Abort("ZeroDivisionError", "get_protection_time")
                        /\ UNCHANGED <<safe_time, risk_level>>
                   ELSE /\ safe_time' = get_protection_time(spf, uv, skin_minutes)
                        /\ risk_level' = RiskLevel(uv)
                        /\ pc' = "summary"
                        /\ UNCHANGED <<error, created, page>>
    /\ UNCHANGED <<inputs, ozone_live, ozone, alert, minutes, risk_array, csv, prev>>

\* lines 89-101: the summary and the alert
Summary ==
    /\ pc = "summary"
    /\ alert' = IF Less(safe_time, Whole(exposure)) THEN "warning" ELSE "safe"
    /\ pc' = "graph"
    /\ UNCHANGED <<inputs, ozone_live, ozone, uv_index, base_time, safe_time,
                   risk_level, minutes, risk_array, csv, error, created, page, prev>>

\* lines 104-119: the sample domain, the risk over it, and the plot
Graph ==
    /\ pc = "graph"
    /\ minutes' = SampleDomain
    /\ risk_array' =
           [i \in 1..Len(minutes') |-> BurnRisk(minutes'[i], safe_time)]
    /\ pc' = "export"
    /\ UNCHANGED <<inputs, ozone_live, ozone, uv_index, base_time, safe_time,
                   risk_level, alert, csv, error, created, page, prev>>

\* lines 122-126: the table, its CSV text and the download button
Export ==
    /\ pc = "export"
    /\ csv' = to_csv(minutes, risk_array)
    /\ Create("download")
    /\ pc' = "footer"
    /\ UNCHANGED <<inputs, ozone_live, ozone, uv_index, base_time, safe_time,
                   risk_level, alert, minutes, risk_array, error, prev>>

\* lines 129-130 and the end of the script: the widgets this evaluation
\* did not create leave the page
Footer ==
    /\ pc = "footer"
    /\ pc' = "done"
    /\ page' = created
    /\ UNCHANGED <<inputs, locals, error, created, prev>>

\* the evaluation has ended, by reaching the end of the script or by an
\* exception
Ended == pc \in {"done", "aborted"}

\* what an evaluation that has ended showed
Shown ==
    [pc |-> pc, error |-> error, uv_index |-> uv_index,
     risk_level |-> risk_level, safe_time |-> safe_time, alert |-> alert,
     risk_array |-> risk_array]

\* what the live lookup of this evaluation gave: the exception it raised,
\* or the value it returned (Unbound when the toggle is off)
LookupResult ==
    IF pc = "aborted" /\ error.in = "get_ozone_thickness" THEN error
    ELSE ozone_live

\* the evaluation that has ended, as kept for comparison
Evaluation == [inputs |-> inputs, lookup |-> LookupResult, shown |-> Shown]

\* the value a widget that is not touched has in the next evaluation: when
\* the script has run to its end, Streamlit forgets the value of a widget
\* that evaluation did not create, and the widget is at its default when
\* created again
Kept(w, value, default) ==
    IF pc = "done" /\ w \notin created THEN default ELSE value

\* the Rerun command of Streamlit's menu (also the R key): always at hand,
\* it changes no widget value
MenuRerun == "rerun"

\* an interaction with one of the widgets or commands in touchable starts
\* the script again from the top with every name unbound, wherever the
\* evaluation under way is, also one that waits in requests.get; what that
\* one had put on the page stays until the new one ends.  A click on the
\* download button changes no widget value.  With remember, the evaluation
\* left behind is kept for comparison when it has ended and none is kept.
RerunOn(touchable, remember) ==
    /\ \E w \in touchable :
          /\ use_live_ozone' =
                 IF w = "use_live_ozone" THEN ~use_live_ozone ELSE use_live_ozone
          /\ lat' \in IF w = "lat" THEN LatValues \ {lat}
                     ELSE {Kept("lat", lat, LAT_DEFAULT)}
          /\ lon' \in IF w = "lon" THEN LonValues \ {lon}
                     ELSE {Kept("lon", lon, LON_DEFAULT)}
          /\ ozone_slider' \in
                 IF w = "ozone" THEN OzoneSliderValues \ {ozone_slider}
                 ELSE {Kept("ozone", ozone_slider, OZONE_DEFAULT)}
          /\ cloud' \in IF w = "cloud" THEN CloudValues \ {cloud} ELSE {cloud}
          /\ altitude' \in
                 IF w = "altitude" THEN AltitudeValues \ {altitude}
                 ELSE {altitude}
          /\ spf' \in IF w = "spf" THEN SpfValues \ {spf} ELSE {spf}
          /\ exposure' \in
                 IF w = "exposure" THEN ExposureValues \ {exposure}
                 ELSE {exposure}
          /\ skin_type' \in
                 IF w = "skin_type" THEN SkinTypeValues \ {skin_type}
                 ELSE {skin_type}
    /\ prev' \in IF remember /\ Ended /\ prev = NoRun THEN {prev, Evaluation}
                 ELSE {prev}
    /\ ozone_live' = Unbound
    /\ ozone' = Unbound
    /\ uv_index' = Unbound
    /\ base_time' = Unbound
    /\ safe_time' = Unbound
    /\ risk_level' = Unbound
    /\ alert' = Unbound
    /\ minutes' = <<>>
    /\ risk_array' = <<>>
    /\ csv' = <<>>
    /\ pc' = "checkbox"
    /\ error' = NoError
    /\ created' = {}
    /\ UNCHANGED page

\* the user touches a widget of the page, or the Rerun command
Rerun == RerunOn(page \cup {MenuRerun}, FALSE)

\* the steps of the script
Evaluate ==
    \/ Checkbox \/ Latitude \/ Longitude \/ Lookup \/ OzoneInput
    \/ Cloud \/ Altitude \/ Spf \/ Exposure \/ SkinType
    \/ Simulation \/ Summary \/ Graph \/ Export \/ Footer

Next == Evaluate \/ Rerun

Spec == Init /\ [][Next]_vars

----------------------------------------------------------------------------
(* Sequences of evaluations, one earlier evaluation kept for comparison:   *)
(* the user touches the toggle, the ozone slider, the download button and  *)
(* the Rerun command                                                       *)

HistoryWidgets == {"use_live_ozone", "ozone", "download"}

HistoryRerun == RerunOn((page \cap HistoryWidgets) \cup {MenuRerun}, TRUE)

HistoryNext == Evaluate \/ HistoryRerun

HistorySpec == Init /\ [][HistoryNext]_vars

----------------------------------------------------------------------------
(* The simulation block on its own, for the properties of get_uv_index and  *)
(* of the risk ladder: it starts where the sidebar has handed on its        *)
(* inputs, in an evaluation that follows one on other widget values         *)

\* ozone values of the slider, and values a live lookup returns (0.47,
\* 31.85, -46.7, 10^15, inf, nan)
UvOzoneSlider == {100, 120, 160, 200, 240, 300, 400}
UvOzoneLive ==
    {Dec(47, 100), Dec(3185, 100), Dec(-467, 10), Quadrillion, Inf, NaN}
UvCloudValues == {0, 20, 80, 100}

UvInit ==
    /\ lat = LAT_DEFAULT
    /\ lon = LON_DEFAULT
    /\ \/ /\ use_live_ozone = FALSE
          /\ ozone_slider \in UvOzoneSlider
          /\ ozone_live = Unbound
          /\ ozone = Whole(ozone_slider)
       \/ /\ use_live_ozone = TRUE
          /\ ozone_slider = OZONE_DEFAULT
          /\ ozone_live \in UvOzoneLive
          /\ ozone = ozone_live
    /\ cloud \in UvCloudValues
    /\ altitude \in AltitudeValues
    /\ spf = SPF_DEFAULT
    /\ exposure = EXPOSURE_DEFAULT
    /\ skin_type = SkinTypeNames[1]
    /\ uv_index = Unbound
    /\ base_time = Unbound
    /\ safe_time = Unbound
    /\ risk_level = Unbound
    /\ alert = Unbound
    /\ minutes = <<>>
    /\ risk_array = <<>>
    /\ csv = <<>>
    /\ pc = "simulation"
    /\ error = NoError
    /\ created =
           {"use_live_ozone", "cloud", "altitude", "spf", "exposure",
            "skin_type"}
           \cup (IF use_live_ozone THEN {"lat", "lon"} ELSE {"ozone"})
    /\ page = created \cup {"download"}
    /\ prev = NoRun

UvNext == Simulation

UvSpec == UvInit /\ [][UvNext]_vars

----------------------------------------------------------------------------
(* Properties *)

\* the simulation block has run to its end in this evaluation
Simulated == pc \in {"summary", "graph", "export", "footer", "done"}

Positive(a) == Less(Zero, a)

Rank(label) ==
    CASE label = "Low" -> 1
      [] label = "Moderate" -> 2
      [] label = "High" -> 3
      [] label = "Very High" -> 4
      [] label = "Extreme" -> 5

\* C1: get_ozone_thickness never raises to its caller: whatever the remote
\* lookup does, no evaluation ends with an exception raised inside
\* get_ozone_thickness.
C1_NeverRaises ==
    ~(pc = "aborted" /\ error.in = "get_ozone_thickness")

\* C2: with the live-ozone toggle on, an evaluation never stops short of the
\* summary, chart and export because of the remote service: it is never
\* blocked in the lookup and never ended by an exception.
C2_LiveEvaluationCompletes ==
    use_live_ozone => pc \notin {"blocked", "aborted"}

\* uv_index values the ladder is compared at: the thresholds, the values
\* 0.01 below them and the floats next below them (3 - 2^-51, 6 - 2^-50,
\* 8 - 2^-50, 11 - 2^-49)
UvProbes ==
    {Dec(-467, 10), Zero,
     Dec(299, 100), FSub(Whole(3), Fin(1, <<1>>, -51)), Whole(3),
     Dec(599, 100), FSub(Whole(6), Fin(1, <<1>>, -50)), Whole(6),
     Dec(799, 100), FSub(Whole(8), Fin(1, <<1>>, -50)), Whole(8),
     Dec(1099, 100), FSub(Whole(11), Fin(1, <<1>>, -49)), Whole(11),
     Whole(1000), Inf}

\* C3: the risk label is one of the five, fixed by the band of uv_index: Low
\* below 3, Moderate in [3,6), High in [6,8), Very High in [8,11), Extreme
\* from 11 on, every threshold in the higher band; and no larger uv_index
\* has a lower label.
C3_RiskLadder ==
    Simulated =>
        /\ risk_level \in {"Low", "Moderate", "High", "Very High", "Extreme"}
        /\ Less(uv_index, Whole(3)) => risk_level = "Low"
        /\ (Leq(Whole(3), uv_index) /\ Less(uv_index, Whole(6))) =>
               risk_level = "Moderate"
        /\ (Leq(Whole(6), uv_index) /\ Less(uv_index, Whole(8))) =>
               risk_level = "High"
        /\ (Leq(Whole(8), uv_index) /\ Less(uv_index, Whole(11))) =>
               risk_level = "Very High"
        /\ Leq(Whole(11), uv_index) => risk_level = "Extreme"
        /\ \A uv \in UvProbes :
               /\ Leq(uv_index, uv) => Rank(risk_level) <= Rank(RiskLevel(uv))
               /\ Leq(uv, uv_index) => Rank(RiskLevel(uv)) <= Rank(risk_level)

\* C3 witness: a threshold value was classified, in its higher band
C3_Witness ==
    /\ pc = "summary"
    /\ uv_index = Whole(11)
    /\ risk_level = "Extreme"

\* C4 as stated: ozone 300 DU, cloud 0 %, altitude 0 km gives uv_index 8.0,
\* classified High.
C4_Original ==
    (Simulated /\ ozone = Whole(300) /\ cloud = 0 /\ altitude = 0) =>
        (uv_index = Whole(8) /\ risk_level = "High")

\* C4 amended: ozone 300 DU, cloud 0 %, altitude 0 km gives uv_index 8.0,
\* classified Very High.
C4_Amended ==
    (Simulated /\ ozone = Whole(300) /\ cloud = 0 /\ altitude = 0) =>
        (uv_index = Whole(8) /\ risk_level = "Very High")

C4_Witness ==
    /\ pc = "done"
    /\ ozone = Whole(300)
    /\ cloud = 0
    /\ altitude = 0
    /\ risk_level = "Very High"

\* C5 as stated: Type I has a base burn time of 10 minutes, so Type I with
\* SPF 30 at uv_index 8.0 has safe_time 37.5 minutes.
C5_Original ==
    (Simulated /\ skin_type = SkinTypeNames[1] /\ spf = 30
        /\ uv_index = Whole(8)) =>
        (base_time = 10 /\ safe_time = Dec(375, 10))

\* C5 amended: Type I has a base burn time of 5 minutes, so Type I with
\* SPF 30 at uv_index 8.0 has safe_time = 30 * 5 / 8.0 = 18.75 minutes.
C5_Amended ==
    (Simulated /\ skin_type = SkinTypeNames[1] /\ spf = 30
        /\ uv_index = Whole(8)) =>
        (base_time = 5 /\ safe_time = Dec(1875, 100))

C5_Witness ==
    /\ pc = "done"
    /\ skin_type = SkinTypeNames[1]
    /\ spf = 30
    /\ uv_index = Whole(8)
    /\ safe_time = Dec(1875, 100)

\* C6: on the manual path and on the live path, the ozone handed to
\* get_uv_index is strictly positive.
C6_OzonePositive ==
    (ozone # Unbound) => Positive(ozone)

\* a value of the ozone slider: a whole number OZONE_MIN .. OZONE_MAX
IsSliderOzone(x) ==
    /\ IsFinite(x)
    /\ x.e >= 0
    /\ Leq(Whole(OZONE_MIN), x)
    /\ Leq(x, Whole(OZONE_MAX))

\* ozone values get_uv_index is compared at: values of the slider, and
\* values below and above its range, among them the smallest positive
\* float (5e-324), two values one float apart (10^15 and 10^15 + 0.125)
\* and inf
OzoneProbes ==
    {Whole(o) : o \in {100, 101, 119, 120, 121, 159, 160, 161, 199, 200, 201,
                       239, 240, 241, 299, 300, 301, 399, 400}}
    \cup {Fin(1, <<1>>, -1074), Dec(1, 100), Dec(47, 100), Dec(3185, 100),
          Dec(801, 2), Whole(100000), Quadrillion,
          FAdd(Quadrillion, Dec(1, 8)), Inf}
CloudProbes == {CLOUD_MIN, 1, 19, 20, 21, 50, 79, 80, 81, 99, CLOUD_MAX}
AltitudeProbes ==
    {ALTITUDE_MIN, 1, 9, 10, 11, 19, 20, 21, 35, 49, ALTITUDE_MAX}

\* C7 as stated: get_uv_index is strictly decreasing in ozone_du, strictly
\* decreasing in cloud_cover and strictly increasing in altitude_km, the
\* other two arguments held at the values of the evaluation, for ozone_du a
\* positive number, cloud cover 0..100 and altitude 0.0..5.0.
C7_Original ==
    (pc = "summary" /\ Positive(ozone)) =>
        LET c == Whole(cloud)
            a == Dec(altitude, 10)
        IN  /\ \A o2 \in OzoneProbes :
                  /\ Less(ozone, o2) =>
                         Less(get_uv_index(o2, c, a), uv_index)
                  /\ Less(o2, ozone) =>
                         Less(uv_index, get_uv_index(o2, c, a))
            /\ \A c2 \in CloudProbes :
                  /\ c2 > cloud =>
                         Less(get_uv_index(ozone, Whole(c2), a), uv_index)
                  /\ c2 < cloud =>
                         Less(uv_index, get_uv_index(ozone, Whole(c2), a))
            /\ \A a2 \in AltitudeProbes :
                  /\ a2 > altitude =>
                         Less(uv_index, get_uv_index(ozone, c, Dec(a2, 10)))
                  /\ a2 < altitude =>
                         Less(get_uv_index(ozone, c, Dec(a2, 10)), uv_index)

\* C7 amended: for ozone_du a positive number, cloud cover 0..100 and
\* altitude 0.0..5.0, the other two arguments held at the values of the
\* evaluation, a larger ozone_du never gives a larger result, a larger
\* cloud_cover never a larger result and a larger altitude_km never a
\* smaller one.  Between two values of the ozone slider the result changes
\* strictly; between two values of the cloud slider or of the altitude
\* slider it changes strictly unless it is zero or infinite.
C7_Amended ==
    (pc = "summary" /\ Positive(ozone)) =>
        LET c == Whole(cloud)
            a == Dec(altitude, 10)
            flat == IsZero(uv_index) \/ IsInf(uv_index)
        IN  /\ \A o2 \in OzoneProbes :
                  LET uv == get_uv_index(o2, c, a)
                      strict == IsSliderOzone(ozone) /\ IsSliderOzone(o2)
                  IN  /\ Less(ozone, o2) =>
                             IF strict THEN Less(uv, uv_index)
                             ELSE Leq(uv, uv_index)
                      /\ Less(o2, ozone) =>
                             IF strict THEN Less(uv_index, uv)
                             ELSE Leq(uv_index, uv)
            /\ \A c2 \in CloudProbes :
                  LET uv == get_uv_index(ozone, Whole(c2), a)
                  IN  /\ c2 > cloud =>
                             IF flat THEN Leq(uv, uv_index)
                             ELSE Less(uv, uv_index)
                      /\ c2 < cloud =>
                             IF flat THEN Leq(uv_index, uv)
                             ELSE Less(uv_index, uv)
            /\ \A a2 \in AltitudeProbes :
                  LET uv == get_uv_index(ozone, c, Dec(a2, 10))
                  IN  /\ a2 > altitude =>
                             IF flat THEN Leq(uv_index, uv)
                             ELSE Less(uv_index, uv)
                      /\ a2 < altitude =>
                             IF flat THEN Leq(uv, uv_index)
                             ELSE Less(uv, uv_index)

\* C7 witness: an evaluation with room on both sides of every argument
C7_Witness ==
    /\ pc = "summary"
    /\ ozone = Whole(240)
    /\ cloud = CLOUD_DEFAULT
    /\ altitude = 10

ExpectedMinutes ==
    [i \in 1..500 |->
        IF i = 500 THEN Whole(180) ELSE FMul(Whole(i - 1), Dec(180, 499))]

\* C9: the exported table is the charted series: after the header, one row
\* per sample point (500 rows), the minutes strictly increasing from 0 to
\* 180 and equal to the sample domain, the risk of row i that of minute i
\* under the current safe_time.
C9_ExportIsSeries ==
    (pc \in {"footer", "done"}) =>
        /\ Len(csv) = GRAPH_NUM + 1
        /\ csv[1] = CsvHeader
        /\ csv[2][1] = Zero
        /\ csv[GRAPH_NUM + 1][1] = Whole(180)
        /\ \A i \in 1..GRAPH_NUM :
              /\ csv[i + 1][1] = ExpectedMinutes[i]
              /\ csv[i + 1][1] = minutes[i]
              /\ csv[i + 1][2] = risk_array[i]
              /\ csv[i + 1][2] = BurnRisk(ExpectedMinutes[i], safe_time)
              /\ i > 1 => Less(csv[i][1], csv[i + 1][1])

C9_Witness ==
    /\ pc = "done"
    /\ Len(csv) = 501
    /\ safe_time = Dec(1875, 100)

\* C10: whenever the ozone handed to the simulation is above zero, the
\* computed uv_index is above zero, get_protection_time does not divide by
\* zero, and safe_time is a finite positive number.
C10_SafeTimeDefined ==
    (ozone # Unbound /\ Positive(ozone)
        /\ (Simulated \/ pc = "aborted")) =>
        /\ ~(pc = "aborted" /\ error.exc = "ZeroDivisionError")
        /\ Positive(uv_index)
        /\ safe_time # Unbound
        /\ IsFinite(safe_time)
        /\ Positive(safe_time)

====
